---------------------------- MODULE Spec2Model ----------------------------
(***************************************************************************)
(* Model of server/scripts/importAllData.py: the entity-resolution core    *)
(* (normalizer, compound SKU parser, component matcher and the resolution  *)
(* aggregator create_boms_and_listings).                                   *)
(*                                                                         *)
(* Python strings are sequences of one-character strings, so "AB" is       *)
(* <<"A", "B">> and '' is << >>.  Python's None is the value None below,   *)
(* which is no string because its only element is not one character.       *)
(* Python tuples and lists are sequences, dicts are records.               *)
(***************************************************************************)
EXTENDS Integers, Sequences, FiniteSets

VARIABLES
    pc,                   \* position of the running call
    fn,                   \* name of the pure function under call ("" if none)
    arg,                  \* its string argument
    ret,                  \* its result
    ret2,                 \* the result of applying it to its own result
    all_components,       \* the catalog handed to the matcher / aggregator
    listings,             \* the listings handed to the aggregator
    pos,                  \* number of listings the aggregator loop has processed
    boms,                 \* create_boms_and_listings: boms
    bom_components_list,  \* create_boms_and_listings: bom_components_list
    listing_memory,       \* create_boms_and_listings: listing_memory
    unmatched             \* create_boms_and_listings: unmatched

vars == <<pc, fn, arg, ret, ret2, all_components, listings, pos,
          boms, bom_components_list, listing_memory, unmatched>>

-----------------------------------------------------------------------------
(* Python values and string primitives *)

None == <<"None">>

\* Python truthiness of a string-or-None value: `not v`
Falsy(v) == v = None \/ v = << >>

\* the ASCII characters str.strip() strips and the regex class \s matches:
\* space, \t, \n, \r, \x0b, \x0c and \x1c..\x1f.  Strings are ASCII throughout.
Whitespace == {" ", "\t", "\n", "\r", "\f", "", "", "", "", ""}

\* the regex `.` (no DOTALL) matches every character but the newline
dot_all(s) == \A i \in 1..Len(s) : s[i] # "\n"

LowerChars == <<"a","b","c","d","e","f","g","h","i","j","k","l","m",
                "n","o","p","q","r","s","t","u","v","w","x","y","z">>
UpperChars == <<"A","B","C","D","E","F","G","H","I","J","K","L","M",
                "N","O","P","Q","R","S","T","U","V","W","X","Y","Z">>
Digits == <<"0","1","2","3","4","5","6","7","8","9">>

IsDigit(c) == \E i \in 1..Len(Digits) : Digits[i] = c
IsLower(c) == \E i \in 1..Len(LowerChars) : LowerChars[i] = c
IsUpper(c) == \E i \in 1..Len(UpperChars) : UpperChars[i] = c

CharUpper(c) ==
    IF IsLower(c) THEN UpperChars[CHOOSE i \in 1..Len(LowerChars) : LowerChars[i] = c]
    ELSE c

CharLower(c) ==
    IF IsUpper(c) THEN LowerChars[CHOOSE i \in 1..Len(UpperChars) : UpperChars[i] = c]
    ELSE c

\* str.upper() / str.lower()
upper(s) == [i \in 1..Len(s) |-> CharUpper(s[i])]
lower(s) == [i \in 1..Len(s) |-> CharLower(s[i])]

RECURSIVE lstrip(_)
lstrip(s) == IF s = << >> \/ s[1] \notin Whitespace THEN s ELSE lstrip(Tail(s))

RECURSIVE rstrip(_)
rstrip(s) ==
    IF s = << >> \/ s[Len(s)] \notin Whitespace THEN s
    ELSE rstrip(SubSeq(s, 1, Len(s) - 1))

\* str.strip()
strip(s) == rstrip(lstrip(s))

\* Python `a in b` on strings
contains(b, a) ==
    \E i \in 0..(Len(b) - Len(a)) : SubSeq(b, i + 1, i + Len(a)) = a

\* str.startswith
startswith(s, p) == Len(p) <= Len(s) /\ SubSeq(s, 1, Len(p)) = p

\* int() of a string of decimal digits
RECURSIVE int(_)
int(ds) ==
    IF ds = << >> THEN 0
    ELSE int(SubSeq(ds, 1, Len(ds) - 1)) * 10
         + ((CHOOSE i \in 1..Len(Digits) : Digits[i] = ds[Len(ds)]) - 1)

-----------------------------------------------------------------------------
(* Normalizer *)

\* (str(sku) is the identity: the argument is a string or None)
normalize_sku(sku) ==
    IF Falsy(sku) THEN None
    ELSE upper(strip(sku))

\* re.sub(r'[^a-z0-9\s]', ' ', fp)
sub_special(fp) ==
    [i \in 1..Len(fp) |->
        IF IsLower(fp[i]) \/ IsDigit(fp[i]) \/ fp[i] \in Whitespace THEN fp[i] ELSE " "]

\* re.sub(r'\s+', ' ', fp)
RECURSIVE collapse_ws(_)
collapse_ws(fp) ==
    IF fp = << >> THEN << >>
    ELSE IF fp[1] \in Whitespace THEN <<" ">> \o collapse_ws(lstrip(fp))
    ELSE <<fp[1]>> \o collapse_ws(Tail(fp))

fingerprint_title(title) ==
    IF Falsy(title) THEN None
    ELSE strip(collapse_ws(sub_special(lower(title))))

\* The SHA-256 digest is kept abstract: an injective tagging of the fingerprint.
hash_fingerprint(fp) ==
    IF Falsy(fp) THEN None
    ELSE <<"sha256">> \o fp

-----------------------------------------------------------------------------
(* Compound SKU parser *)

\* re.split(r'[+/]', sku)
RECURSIVE split_joiners(_)
split_joiners(s) ==
    IF \E i \in 1..Len(s) : s[i] \in {"+", "/"}
    THEN LET i == CHOOSE j \in 1..Len(s) :
                     /\ s[j] \in {"+", "/"}
                     /\ \A k \in 1..(j - 1) : s[k] \notin {"+", "/"}
         IN  <<SubSeq(s, 1, i - 1)>> \o split_joiners(SubSeq(s, i + 1, Len(s)))
    ELSE <<s>>

\* number of leading digits of s
RECURSIVE leading_digits(_)
leading_digits(s) ==
    IF s # << >> /\ IsDigit(s[1]) THEN 1 + leading_digits(Tail(s)) ELSE 0

\* number of digits of s that end at index n
RECURSIVE digits_before(_, _)
digits_before(s, n) ==
    IF n >= 1 /\ IsDigit(s[n]) THEN 1 + digits_before(s, n - 1) ELSE 0

\* re.match(r'^(\d+)x(.+)$', part, re.IGNORECASE)
prefix_match(part) ==
    LET k == leading_digits(part)
    IN  /\ k >= 1 /\ Len(part) >= k + 2 /\ part[k + 1] \in {"x", "X"}
        /\ dot_all(SubSeq(part, k + 2, Len(part)))

\* re.match(r'^(.+)\(x(\d+)\)$', part, re.IGNORECASE)
suffix_match(part) ==
    LET n == Len(part)
        k == IF n >= 1 /\ part[n] = ")" THEN digits_before(part, n - 1) ELSE 0
    IN  /\ k >= 1
        /\ n - 3 - k >= 1
        /\ part[n - 1 - k] \in {"x", "X"}
        /\ part[n - 2 - k] = "("
        /\ dot_all(SubSeq(part, 1, n - 3 - k))

\* body of the loop over parts: the (component, qty) tuple of one stripped part
parse_part(part) ==
    IF prefix_match(part)
    THEN LET k == leading_digits(part)
         IN  <<strip(SubSeq(part, k + 2, Len(part))), int(SubSeq(part, 1, k))>>
    ELSE IF suffix_match(part)
    THEN LET n == Len(part)
             k == digits_before(part, n - 1)
         IN  <<strip(SubSeq(part, 1, n - 3 - k)), int(SubSeq(part, n - k, n - 1))>>
    ELSE <<part, 1>>

RECURSIVE parse_parts(_)
parse_parts(parts) ==
    IF parts = << >> THEN << >>
    ELSE LET part == strip(parts[1])
         IN  (IF part = << >> THEN << >> ELSE <<parse_part(part)>>)
             \o parse_parts(Tail(parts))

parse_compound_sku(sku) ==
    IF Falsy(sku) THEN << >>
    ELSE parse_parts(split_joiners(sku))


-----------------------------------------------------------------------------
(* Component matcher *)

\* a scan `for x in xs: if test(x): <take x and stop>`, given the outcome of the
\* test for each element: the index of the first hit, 0 if there is none
first_hit(hits) ==
    IF \E i \in 1..Len(hits) : hits[i]
    THEN CHOOSE i \in 1..Len(hits) : hits[i] /\ \A j \in 1..(i - 1) : ~hits[j]
    ELSE 0

prefixes == << <<"M","A","K">>, <<"D","E","W">>,
               <<"M","A","K","I","T","A">>, <<"D","E","W","A","L","T">> >>

\* for comp in comps: if comp['internal_sku'].upper() == test_pattern: return it
direct_match(test_pattern, comps) ==
    LET i == first_hit([n \in 1..Len(comps) |->
                 upper(comps[n].internal_sku) = test_pattern])
    IN  IF i # 0 THEN comps[i].internal_sku ELSE None

\* Mutant: the scan accepts only a stock code that contains the pattern.
partial_match_one_way(pattern_upper, comps) ==
    LET i == first_hit([n \in 1..Len(comps) |->
                 contains(upper(comps[n].internal_sku), pattern_upper)])
    IN  IF i # 0 THEN comps[i].internal_sku ELSE None

\* the scan that accepts containment in either direction
partial_match(pattern_upper, comps) ==
    LET i == first_hit([n \in 1..Len(comps) |->
                 \/ contains(upper(comps[n].internal_sku), pattern_upper)
                 \/ contains(pattern_upper, upper(comps[n].internal_sku))])
    IN  IF i # 0 THEN comps[i].internal_sku ELSE None

\* the loop over prefixes, from the k-th prefix on
RECURSIVE try_prefixes(_, _, _)
try_prefixes(pattern_upper, comps, k) ==
    IF k > Len(prefixes) THEN None
    ELSE LET prefix == prefixes[k]
             added == IF ~startswith(pattern_upper, prefix)
                      THEN direct_match(prefix \o pattern_upper, comps)
                      ELSE None
             removed == IF startswith(pattern_upper, prefix)
                        THEN direct_match(SubSeq(pattern_upper, Len(prefix) + 1,
                                                 Len(pattern_upper)), comps)
                        ELSE None
         IN  IF added # None THEN added
             ELSE IF removed # None THEN removed
             ELSE try_prefixes(pattern_upper, comps, k + 1)

\* Mutant: the containment scan runs before the direct scan.
match_partial_first(component_pattern, comps) ==
    LET pattern_upper == upper(component_pattern)
        direct == direct_match(pattern_upper, comps)
        partial == partial_match(pattern_upper, comps)
    IN  IF partial # None THEN partial
        ELSE IF direct # None THEN direct
        ELSE try_prefixes(pattern_upper, comps, 1)

match_component_to_import(component_pattern, comps) ==
    LET pattern_upper == upper(component_pattern)
        direct == direct_match(pattern_upper, comps)
        partial == partial_match(pattern_upper, comps)
    IN  IF direct # None THEN direct
        ELSE IF partial # None THEN partial
        ELSE try_prefixes(pattern_upper, comps, 1)

-----------------------------------------------------------------------------
(* Catalog deduplication, as create_component_sql performs it *)

RECURSIVE unique_from(_, _)
unique_from(components, seen_skus) ==
    IF components = << >> THEN << >>
    ELSE LET comp == components[1]
             sku_upper == upper(comp.internal_sku)
         IN  IF sku_upper \notin seen_skus
             THEN <<comp>> \o unique_from(Tail(components), seen_skus \cup {sku_upper})
             ELSE unique_from(Tail(components), seen_skus)

unique_components(components) == unique_from(components, {})

-----------------------------------------------------------------------------
(* Resolution aggregator *)

DescLimit == 500
MinOverlapLen == 10

\* s[:n]
truncate(s, n) == SubSeq(s, 1, IF Len(s) < n THEN Len(s) ELSE n)

\* the loop over parsed references: (matched_sku, qty) for every reference
\* the matcher resolves to a truthy SKU
RECURSIVE match_parsed(_, _)
match_parsed(parsed, comps) ==
    IF parsed = << >> THEN << >>
    ELSE LET matched_sku == match_component_to_import(parsed[1][1], comps)
         IN  (IF ~Falsy(matched_sku) THEN << <<matched_sku, parsed[1][2]>> >> ELSE << >>)
             \o match_parsed(Tail(parsed), comps)

\* Mutant: a description of exactly MinOverlapLen characters is accepted too.
title_overlap_at_least(comp, item_name) ==
    /\ ~Falsy(comp.description) /\ ~Falsy(item_name)
    /\ LET comp_desc_upper == upper(comp.description)
           item_upper == upper(item_name)
       IN  /\ Len(comp_desc_upper) >= MinOverlapLen
           /\ \/ contains(item_upper, comp_desc_upper)
              \/ contains(comp_desc_upper, item_upper)

\* the acceptance test of the title-overlap scan
title_overlap(comp, item_name) ==
    /\ ~Falsy(comp.description) /\ ~Falsy(item_name)
    /\ LET comp_desc_upper == upper(comp.description)
           item_upper == upper(item_name)
       IN  /\ Len(comp_desc_upper) > MinOverlapLen
           /\ \/ contains(item_upper, comp_desc_upper)
              \/ contains(comp_desc_upper, item_upper)

\* the title-overlap scan: the first accepted component with quantity 1, then break
title_fallback(item_name, comps) ==
    LET i == first_hit([n \in 1..Len(comps) |-> title_overlap(comps[n], item_name)])
    IN  IF i # 0 THEN << <<comps[i].internal_sku, 1>> >> ELSE << >>

\* matched_components of one listing
resolve_components(listing, comps) ==
    LET from_sku == match_parsed(parse_compound_sku(listing.seller_sku), comps)
    IN  IF from_sku = << >> THEN title_fallback(listing.item_name, comps) ELSE from_sku

\* the BOM Component Link rows of one listing
link_rows(seller_sku, matched_components) ==
    [i \in 1..Len(matched_components) |->
        [bom_sku |-> seller_sku,
         component_sku |-> matched_components[i][1],
         qty_required |-> matched_components[i][2]]]

\* the BOM row of one listing
bom_row(listing) ==
    [bundle_sku |-> listing.seller_sku,
     description |-> IF ~Falsy(listing.item_name)
                     THEN truncate(listing.item_name, DescLimit)
                     ELSE << >>,
     is_active |-> TRUE]

\* the Unmatched record of one listing
unmatched_row(listing) ==
    [seller_sku |-> listing.seller_sku, item_name |-> listing.item_name,
     asin |-> listing.asin]

\* the Listing Memory Entry of one listing
memory_row(listing) ==
    [asin |-> listing.asin,
     sku |-> listing.seller_sku,
     title_fingerprint |-> listing.fingerprint,
     title_fingerprint_hash |-> listing.fingerprint_hash,
     bom_sku |-> listing.seller_sku,
     resolution_source |-> "IMPORT"]

\* Mutant: the listing is flagged before the title-overlap scan is tried.
process_listing_flag_before_fallback(acc, listing, comps) ==
    LET matched_components == resolve_components(listing, comps)
    IN  [boms |-> Append(acc.boms, bom_row(listing)),
         bom_components_list |->
            acc.bom_components_list \o link_rows(listing.seller_sku, matched_components),
         listing_memory |-> Append(acc.listing_memory, memory_row(listing)),
         unmatched |->
            IF match_parsed(parse_compound_sku(listing.seller_sku), comps) = << >>
            THEN Append(acc.unmatched, unmatched_row(listing))
            ELSE acc.unmatched]

\* Mutant: the listing is flagged as soon as one of its references finds no component.
process_listing_flag_partial(acc, listing, comps) ==
    LET matched_components == resolve_components(listing, comps)
        parsed == parse_compound_sku(listing.seller_sku)
    IN  [boms |-> Append(acc.boms, bom_row(listing)),
         bom_components_list |->
            acc.bom_components_list \o link_rows(listing.seller_sku, matched_components),
         listing_memory |-> Append(acc.listing_memory, memory_row(listing)),
         unmatched |->
            IF matched_components = << >>
               \/ Len(match_parsed(parsed, comps)) < Len(parsed)
            THEN Append(acc.unmatched, unmatched_row(listing))
            ELSE acc.unmatched]

\* Mutant: a BOM row is written only for a bundle_sku not written before.
process_listing_dedup_boms(acc, listing, comps) ==
    LET matched_components == resolve_components(listing, comps)
    IN  [boms |->
            IF \E i \in 1..Len(acc.boms) : acc.boms[i].bundle_sku = listing.seller_sku
            THEN acc.boms
            ELSE Append(acc.boms, bom_row(listing)),
         bom_components_list |->
            acc.bom_components_list \o link_rows(listing.seller_sku, matched_components),
         listing_memory |-> Append(acc.listing_memory, memory_row(listing)),
         unmatched |->
            IF matched_components = << >>
            THEN Append(acc.unmatched, unmatched_row(listing))
            ELSE acc.unmatched]

\* Mutant: a seller_sku already reported as unmatched is not reported again.
process_listing_dedup_unmatched(acc, listing, comps) ==
    LET matched_components == resolve_components(listing, comps)
    IN  [boms |-> Append(acc.boms, bom_row(listing)),
         bom_components_list |->
            acc.bom_components_list \o link_rows(listing.seller_sku, matched_components),
         listing_memory |-> Append(acc.listing_memory, memory_row(listing)),
         unmatched |->
            IF /\ matched_components = << >>
               /\ ~\E i \in 1..Len(acc.unmatched) :
                     acc.unmatched[i].seller_sku = listing.seller_sku
            THEN Append(acc.unmatched, unmatched_row(listing))
            ELSE acc.unmatched]

\* one iteration of the loop over listings; acc holds the four collections.
\* (component_lookup, bom_sku and bom_desc are computed by the code and never read.)
process_listing(acc, listing, comps) ==
    LET matched_components == resolve_components(listing, comps)
    IN  [boms |-> Append(acc.boms, bom_row(listing)),
         bom_components_list |->
            acc.bom_components_list \o link_rows(listing.seller_sku, matched_components),
         listing_memory |-> Append(acc.listing_memory, memory_row(listing)),
         unmatched |->
            IF matched_components = << >>
            THEN Append(acc.unmatched, unmatched_row(listing))
            ELSE acc.unmatched]

EmptyCollections ==
    [boms |-> << >>, bom_components_list |-> << >>,
     listing_memory |-> << >>, unmatched |-> << >>]

RECURSIVE resolve_from(_, _, _)
resolve_from(acc, ls, comps) ==
    IF ls = << >> THEN acc
    ELSE resolve_from(process_listing(acc, ls[1], comps), Tail(ls), comps)

\* the four collections the function returns
create_boms_and_listings(ls, comps) == resolve_from(EmptyCollections, ls, comps)

-----------------------------------------------------------------------------
(* Inputs *)

MaxNormLen == 3
MaxSkuLen == 5
MaxMatchCatalog == 3
MaxCatalog == 2
MaxListings == 2

SeqsUpTo(S, n) == UNION {[1..k -> S] : k \in 0..n}

\* titles and identifiers handed to the normalizer
NormAlphabet == {" ", "\n", "a", "A", "1", "!"}

\* seller SKUs handed to the parser
ParseAlphabet == {"0", "2", "x", "X", "A", "+", "/", "(", ")", " ", "\n"}

\* a catalog row as load_cost_files builds it (brand, is_active and source_file
\* are read by no modelled code and are left out)
Component(stock_code, description, cost_pence) ==
    [internal_sku |-> stock_code,
     description |-> IF description # <<"n","a","n">> THEN description ELSE << >>,
     cost_ex_vat_pence |-> cost_pence]

\* a listing as load_amazon_listings builds it (price_pence is read by no
\* modelled code and is left out)
Listing(item_name, seller_sku, asin) ==
    [item_name |-> item_name, seller_sku |-> seller_sku,
     asin |-> IF asin # <<"n","a","n">> THEN asin ELSE None,
     fingerprint |-> fingerprint_title(item_name),
     fingerprint_hash |-> hash_fingerprint(fingerprint_title(item_name))]

\* stock codes and patterns handed to the matcher
MatchSkus == { <<"B">>, <<"b">>, <<"K">>, <<"A","B">>,
               <<"M","A","K","B">>, <<"M","A","K","A","B">> }
MatchPatterns == { <<"B">>, <<"b">>, <<"A","B">>, <<"K","B">>, <<"Z">>,
                   <<"M","A","K">>, <<"M","A","K","B">>, <<"D","E","W","B">> }
MatchCatalogs ==
    SeqsUpTo({Component(s, << >>, 0) : s \in MatchSkus}, MaxMatchCatalog)

\* catalog rows handed to the aggregator: stock codes and descriptions are
\* stripped, stock codes are non-empty
DescKit == <<"d","r","i","l","l"," ","1","8","v"," ","k","i","t">>
DescEleven == <<"d","r","i","l","l"," ","1","8","v"," ","k">>
DescTen == <<"r","i","l","l"," ","1","8","v"," ","k">>
ResolveComponents ==
    { Component(<<"A","B">>, << >>, 100),
      Component(<<"a","b">>, DescKit, 999),
      Component(<<"B">>, DescTen, 250),
      Component(<<"M","A","K","B">>, DescEleven, 300) }
ResolveCatalogs == SeqsUpTo(ResolveComponents, MaxCatalog)

\* listings handed to the aggregator: item_name and seller_sku are stripped and
\* non-empty, a missing asin reads 'nan'
TitleKit == <<"D","R","I","L","L"," ","1","8","V"," ","K","I","T">>
TitleShort == <<"1","8","V"," ","K","i","t">>
TitleSaw == <<"S","a","w">>
SkuZZ == <<"Z","Z">>
AsinNan == <<"n","a","n">>
ResolveListings ==
    { Listing(TitleSaw, <<"A","B","+","\n","2","x","B">>, <<"A","1">>),
      Listing(TitleKit, SkuZZ, AsinNan),
      Listing(TitleSaw, SkuZZ, <<"A","2">>),
      Listing(TitleShort, <<"0","x","B","/","Q","(","x","3",")">>, AsinNan),
      Listing(TitleKit, <<"B","+","B">>, <<"A","1">>) }
ResolveInputs == SeqsUpTo(ResolveListings, MaxListings)

-----------------------------------------------------------------------------
(* Calls of the pure functions *)

NoCatalog ==
    /\ all_components = << >> /\ listings = << >> /\ pos = 0
    /\ boms = << >> /\ bom_components_list = << >>
    /\ listing_memory = << >> /\ unmatched = << >>

InitNorm ==
    /\ pc = "start" /\ fn = "" /\ ret = None /\ ret2 = None
    /\ arg \in SeqsUpTo(NormAlphabet, MaxNormLen)
    /\ NoCatalog

CallNormalizeSku ==
    /\ pc = "start"
    /\ pc' = "once" /\ fn' = "normalize_sku"
    /\ ret' = normalize_sku(arg)
    /\ UNCHANGED <<arg, ret2, all_components, listings, pos,
                   boms, bom_components_list, listing_memory, unmatched>>

CallFingerprintTitle ==
    /\ pc = "start"
    /\ pc' = "once" /\ fn' = "fingerprint_title"
    /\ ret' = fingerprint_title(arg)
    /\ UNCHANGED <<arg, ret2, all_components, listings, pos,
                   boms, bom_components_list, listing_memory, unmatched>>

ReapplyNormalizeSku ==
    /\ pc = "once" /\ fn = "normalize_sku"
    /\ pc' = "twice"
    /\ ret2' = normalize_sku(ret)
    /\ UNCHANGED <<fn, arg, ret, all_components, listings, pos,
                   boms, bom_components_list, listing_memory, unmatched>>

ReapplyFingerprintTitle ==
    /\ pc = "once" /\ fn = "fingerprint_title"
    /\ pc' = "twice"
    /\ ret2' = fingerprint_title(ret)
    /\ UNCHANGED <<fn, arg, ret, all_components, listings, pos,
                   boms, bom_components_list, listing_memory, unmatched>>

NextNorm ==
    \/ CallNormalizeSku
    \/ CallFingerprintTitle
    \/ ReapplyNormalizeSku
    \/ ReapplyFingerprintTitle

SpecNorm == InitNorm /\ [][NextNorm]_vars

InitParse ==
    /\ pc = "start" /\ fn = "parse_compound_sku" /\ ret = None /\ ret2 = None
    /\ arg \in SeqsUpTo(ParseAlphabet, MaxSkuLen)
    /\ NoCatalog

CallParseCompoundSku ==
    /\ pc = "start" /\ fn = "parse_compound_sku"
    /\ pc' = "done"
    /\ ret' = parse_compound_sku(arg)
    /\ UNCHANGED <<fn, arg, ret2, all_components, listings, pos,
                   boms, bom_components_list, listing_memory, unmatched>>

NextParse == CallParseCompoundSku

SpecParse == InitParse /\ [][NextParse]_vars

InitMatch ==
    /\ pc = "start" /\ fn = "match_component_to_import" /\ ret = None /\ ret2 = None
    /\ arg \in MatchPatterns
    /\ all_components \in MatchCatalogs
    /\ listings = << >> /\ pos = 0
    /\ boms = << >> /\ bom_components_list = << >>
    /\ listing_memory = << >> /\ unmatched = << >>

CallMatchComponent ==
    /\ pc = "start" /\ fn = "match_component_to_import"
    /\ pc' = "done"
    /\ ret' = match_component_to_import(arg, all_components)
    /\ UNCHANGED <<fn, arg, ret2, all_components, listings, pos,
                   boms, bom_components_list, listing_memory, unmatched>>

NextMatch == CallMatchComponent

SpecMatch == InitMatch /\ [][NextMatch]_vars

-----------------------------------------------------------------------------
(* create_boms_and_listings, one listing per step *)

Init ==
    /\ pc = "loop" /\ fn = "create_boms_and_listings"
    /\ arg = None /\ ret = None /\ ret2 = None
    /\ all_components \in ResolveCatalogs
    /\ listings \in ResolveInputs
    /\ pos = 0
    /\ boms = << >> /\ bom_components_list = << >>
    /\ listing_memory = << >> /\ unmatched = << >>

Collections ==
    [boms |-> boms, bom_components_list |-> bom_components_list,
     listing_memory |-> listing_memory, unmatched |-> unmatched]

ProcessListing ==
    /\ pc = "loop" /\ pos < Len(listings)
    /\ LET out == process_listing(Collections, listings[pos + 1], all_components)
       IN  /\ boms' = out.boms
           /\ bom_components_list' = out.bom_components_list
           /\ listing_memory' = out.listing_memory
           /\ unmatched' = out.unmatched
    /\ pos' = pos + 1
    /\ UNCHANGED <<pc, fn, arg, ret, ret2, all_components, listings>>

Return ==
    /\ pc = "loop" /\ pos = Len(listings)
    /\ pc' = "done"
    /\ UNCHANGED <<fn, arg, ret, ret2, all_components, listings, pos,
                   boms, bom_components_list, listing_memory, unmatched>>

Next == ProcessListing \/ Return

Spec == Init /\ [][Next]_vars

-----------------------------------------------------------------------------
(* Properties *)

\* least element of a non-empty set of indices
Least(S) == CHOOSE i \in S : \A j \in S : i <= j

\* field-wise concatenation of two results of create_boms_and_listings
ConcatCollections(a, b) ==
    [boms |-> a.boms \o b.boms,
     bom_components_list |-> a.bom_components_list \o b.bom_components_list,
     listing_memory |-> a.listing_memory \o b.listing_memory,
     unmatched |-> a.unmatched \o b.unmatched]

\* an Unmatched record / a BOM Component Link carries this seller_sku
HasUnmatched(sku) == \E i \in 1..Len(unmatched) : unmatched[i].seller_sku = sku
HasLink(sku) ==
    \E i \in 1..Len(bom_components_list) : bom_components_list[i].bom_sku = sku

\* the parsed references of a listing that the matcher resolves, in parse order
MatchedRefs(listing, comps) ==
    SelectSeq(parse_compound_sku(listing.seller_sku),
              LAMBDA r : match_component_to_import(r[1], comps) # None)

\* the catalog positions the title-overlap rule accepts for a title
OverlapPositions(item_name, comps) ==
    { i \in 1..Len(comps) :
        /\ Len(comps[i].description) > 10
        /\ \/ contains(upper(comps[i].description), upper(item_name))
           \/ contains(upper(item_name), upper(comps[i].description)) }

\* C1: when the loop has returned, the four collections equal those of
\* create_boms_and_listings run on the catalog deduplicated by uppercased
\* internal_sku, first occurrence kept.
C1_DedupEquivalence ==
    pc = "done" =>
        Collections = create_boms_and_listings(listings, unique_components(all_components))

\* C2 (as stated): in the output every listing has, by seller_sku, either an
\* Unmatched record or at least one BOM Component Link, never both and never
\* neither, for any listing sequence.
C2_ExactlyOneBySku ==
    pc = "done" =>
        \A i \in 1..Len(listings) :
            HasUnmatched(listings[i].seller_sku) # HasLink(listings[i].seller_sku)

\* listings that share a seller_sku share their item_name
TitlesAgreePerSku ==
    \A i, j \in 1..Len(listings) :
        listings[i].seller_sku = listings[j].seller_sku
            => listings[i].item_name = listings[j].item_name

\* C2 (amended): the same, for listing sequences in which listings that share
\* a seller_sku also share their item_name.
C2_ExactlyOneWhenTitlesAgree ==
    (pc = "done" /\ TitlesAgreePerSku) =>
        \A i \in 1..Len(listings) :
            HasUnmatched(listings[i].seller_sku) # HasLink(listings[i].seller_sku)

\* two listings that share seller_sku and item_name, both resolved to links
C2_Witness ==
    /\ pc = "done" /\ TitlesAgreePerSku
    /\ \E i, j \in 1..Len(listings) :
          /\ i # j
          /\ listings[i].seller_sku = listings[j].seller_sku
          /\ HasLink(listings[i].seller_sku)

\* C3: every (pattern, quantity) pair parse_compound_sku returns has
\* quantity >= 1.
C3_QuantityAtLeastOne ==
    (pc = "done" /\ fn = "parse_compound_sku") =>
        \A i \in 1..Len(ret) : ret[i][2] >= 1

\* C4: normalize_sku and fingerprint_title are idempotent: applying the
\* function to its own result gives that result again.
C4_Idempotent == pc = "twice" => ret2 = ret

\* C5: when some component's uppercased internal_sku equals the uppercased
\* pattern, match_component_to_import returns the internal_sku of the first
\* such component in catalog order.
C5_ExactMatchFirst ==
    (pc = "done" /\ fn = "match_component_to_import") =>
        LET exact == { i \in 1..Len(all_components) :
                          upper(all_components[i].internal_sku) = upper(arg) }
        IN  exact # {} => ret = all_components[Least(exact)].internal_sku

\* an exact entry preceded by an entry that only contains the pattern
C5_Witness ==
    /\ pc = "done" /\ fn = "match_component_to_import"
    /\ \E i, j \in 1..Len(all_components) :
          /\ i < j
          /\ upper(all_components[j].internal_sku) = upper(arg)
          /\ upper(all_components[i].internal_sku) # upper(arg)
          /\ contains(upper(all_components[i].internal_sku), upper(arg))
          /\ ret = all_components[j].internal_sku

\* C6: boms and listing_memory hold one row per processed listing, in listing
\* order, keyed by the listing's seller_sku, with resolution_source "IMPORT";
\* on return every listing has been processed.
C6_OneBomAndMemoryPerListing ==
    /\ Len(boms) = pos /\ Len(listing_memory) = pos
    /\ \A i \in 1..pos :
          /\ boms[i].bundle_sku = listings[i].seller_sku
          /\ listing_memory[i].sku = listings[i].seller_sku
          /\ listing_memory[i].bom_sku = listings[i].seller_sku
          /\ listing_memory[i].resolution_source = "IMPORT"
    /\ (pc = "done" => pos = Len(listings))

\* two listings with one seller_sku, one resolved and one unmatched
C6_Witness ==
    /\ pc = "done" /\ Len(listings) = 2
    /\ listings[1].seller_sku = listings[2].seller_sku
    /\ Len(unmatched) = 1 /\ bom_components_list # << >>
    /\ Len(boms) = 2

\* C7: processing one listing appends exactly one Unmatched record, carrying
\* the listing's seller_sku, item_name and asin, and no BOM Component Link, if
\* no parsed reference matched and the title-overlap rule accepts no component;
\* otherwise it appends no Unmatched record.
C7_UnmatchedIffNothingMatched ==
    [][pos' = pos + 1 =>
         LET listing == listings[pos']
         IN  IF /\ MatchedRefs(listing, all_components) = << >>
                /\ OverlapPositions(listing.item_name, all_components) = {}
             THEN /\ unmatched' = Append(unmatched,
                        [seller_sku |-> listing.seller_sku,
                         item_name |-> listing.item_name,
                         asin |-> listing.asin])
                  /\ bom_components_list' = bom_components_list
             ELSE unmatched' = unmatched]_vars

\* a listing some of whose references matched and some did not, and an
\* unmatched listing
C7_Witness ==
    /\ pc = "done" /\ Len(listings) = 2 /\ Len(unmatched) = 1
    /\ \E i \in 1..2 :
          LET n == Len(MatchedRefs(listings[i], all_components))
          IN  0 < n /\ n < Len(parse_compound_sku(listings[i].seller_sku))

\* C8: the collections built from the listings processed so far are, for every
\* split of those listings in two, the concatenation of the collections
\* create_boms_and_listings returns for the two parts.
C8_Concatenation ==
    \A k \in 0..pos :
        Collections =
            ConcatCollections(
                create_boms_and_listings(SubSeq(listings, 1, k), all_components),
                create_boms_and_listings(SubSeq(listings, k + 1, pos), all_components))

\* two listings with one seller_sku, both unmatched
C8_Witness ==
    /\ pc = "done" /\ pos = 2
    /\ listings[1].seller_sku = listings[2].seller_sku
    /\ Len(unmatched) = 2

\* the links claim C9 gives a listing
C9_Links(listing, comps) ==
    LET refs == MatchedRefs(listing, comps)
        accepted == OverlapPositions(listing.item_name, comps)
    IN  IF refs # << >>
        THEN [i \in 1..Len(refs) |->
                [bom_sku |-> listing.seller_sku,
                 component_sku |-> match_component_to_import(refs[i][1], comps),
                 qty_required |-> refs[i][2]]]
        ELSE IF accepted # {}
        THEN << [bom_sku |-> listing.seller_sku,
                 component_sku |-> comps[Least(accepted)].internal_sku,
                 qty_required |-> 1] >>
        ELSE << >>

\* C9: processing one listing appends one link per matched reference, in parse
\* order with the parsed quantity; only if no reference matched, it appends
\* instead at most one link, with quantity 1, to the first component in catalog
\* order whose description is longer than 10 characters and contains, or is
\* contained in, the title (both uppercased).
C9_LinksPerListing ==
    [][pos' = pos + 1 =>
         bom_components_list' =
             bom_components_list \o C9_Links(listings[pos'], all_components)]_vars

\* a listing resolved by the title-overlap rule although an earlier component's
\* description of 10 characters is contained in its title
C9_Witness ==
    /\ pc = "done" /\ Len(listings) = 1 /\ Len(all_components) = 2
    /\ MatchedRefs(listings[1], all_components) = << >>
    /\ Len(all_components[1].description) = 10
    /\ contains(upper(listings[1].item_name), upper(all_components[1].description))
    /\ Len(bom_components_list) = 1
    /\ bom_components_list[1].component_sku = all_components[2].internal_sku

\* what the direct scan followed by the containment scan alone returns
ExactThenContainment(pattern, comps) ==
    LET exact == { i \in 1..Len(comps) : upper(comps[i].internal_sku) = upper(pattern) }
        partial == { i \in 1..Len(comps) :
                        \/ contains(upper(comps[i].internal_sku), upper(pattern))
                        \/ contains(upper(pattern), upper(comps[i].internal_sku)) }
    IN  IF exact # {} THEN comps[Least(exact)].internal_sku
        ELSE IF partial # {} THEN comps[Least(partial)].internal_sku
        ELSE None

\* C10: match_component_to_import returns what the direct scan followed by the
\* containment scan alone returns, and returns None exactly when no
\* component's uppercased internal_sku contains, or is contained in, the
\* uppercased pattern.
C10_PrefixTierNeverDecides ==
    (pc = "done" /\ fn = "match_component_to_import") =>
        /\ ret = ExactThenContainment(arg, all_components)
        /\ ret = None <=>
              ~\E i \in 1..Len(all_components) :
                  \/ contains(upper(all_components[i].internal_sku), upper(arg))
                  \/ contains(upper(arg), upper(all_components[i].internal_sku))

\* the pattern with a brand prefix stripped is a catalog entry, after an entry
\* the pattern contains
C10_Witness ==
    /\ pc = "done" /\ fn = "match_component_to_import"
    /\ \E k \in 1..Len(prefixes), i, j \in 1..Len(all_components) :
          /\ i < j
          /\ startswith(upper(arg), prefixes[k])
          /\ upper(all_components[j].internal_sku)
                = SubSeq(upper(arg), Len(prefixes[k]) + 1, Len(arg))
          /\ upper(all_components[i].internal_sku) # upper(all_components[j].internal_sku)
          /\ ret = all_components[i].internal_sku

=============================================================================
